---- MODULE Spec2Model ----
(***************************************************************************)
(* A model of spectraforge-eq: spectral analysis (analyzer.rs), profile    *)
(* extraction (profile.rs), profile matching (matcher.rs), the preview     *)
(* filter (dsp/filters.rs) and the command layer (main.rs).                *)
(*                                                                         *)
(* f32 values are fixed-point integers in thousandths (1.0 is 1000, 6 dB   *)
(* is 6000); products and quotients are rounded to the nearest thousandth. *)
(* Frequencies are whole Hz.  An f32 that the code can drive to NaN is     *)
(* carried as NaN or Fin(x).                                               *)
(***************************************************************************)
EXTENDS Integers, Sequences, FiniteSets, TLC

VARIABLES pc, args, ret, slots, pending, trace, eq

vars == <<pc, args, ret, slots, pending, trace, eq>>

(***************************************************************************)
(* Bounds of the model.                                                    *)
(***************************************************************************)
MaxBands == 3

(***************************************************************************)
(* f32 arithmetic.                                                         *)
(***************************************************************************)
Scale == 1000

NaN == [nan |-> TRUE]
Fin(x) == [nan |-> FALSE, v |-> x]
IsNaN(f) == f.nan

Abs(x) == IF x < 0 THEN -x ELSE x
Min(a, b) == IF a < b THEN a ELSE b
Max(a, b) == IF a > b THEN a ELSE b

\* a / b for b > 0, rounded to the nearest integer (half away from zero)
RoundDiv(a, b) == IF a >= 0 THEN (2 * a + b) \div (2 * b)
                            ELSE -((2 * (-a) + b) \div (2 * b))

\* a * b of two values in thousandths
Mul(a, b) == RoundDiv(a * b, Scale)

\* a / b of two values in thousandths, b # 0
Div(a, b) == IF b > 0 THEN RoundDiv(a * Scale, b) ELSE RoundDiv(-a * Scale, -b)

\* f32::clamp(lo, hi) for lo <= hi
Clamp(x, lo, hi) == IF x < lo THEN lo ELSE IF x > hi THEN hi ELSE x

\* the largest r in lo..hi with r * r <= n
RECURSIVE SqrtFloor(_, _, _)
SqrtFloor(n, lo, hi) ==
    IF lo >= hi THEN lo
    ELSE LET mid == (lo + hi + 1) \div 2
         IN IF mid * mid <= n THEN SqrtFloor(n, mid, hi)
                              ELSE SqrtFloor(n, lo, mid - 1)

\* x.powf(0.5) for x in [0, 1], to the nearest thousandth
Sqrt(x) == LET twice == SqrtFloor(4 * x * Scale, 0, 2 * Scale)
           IN (twice + 1) \div 2

RECURSIVE SumSeq(_)
SumSeq(s) == IF s = <<>> THEN 0 ELSE Head(s) + SumSeq(Tail(s))

RECURSIVE Pow2(_)
Pow2(k) == IF k = 0 THEN 1 ELSE 2 * Pow2(k - 1)

\* f32::log2 of the ratio hi / lo of two frequencies, in thousandths; the
\* band lists of the model are spaced by whole octaves, so the ratio is a
\* power of two
RECURSIVE Log2Int(_)
Log2Int(n) == IF n <= 1 THEN 0 ELSE 1 + Log2Int(n \div 2)

Log2Ratio(hi, lo) == Scale * Log2Int(hi \div lo)

(***************************************************************************)
(* matcher.rs                                                              *)
(***************************************************************************)
Gains(bands) == [i \in 1..Len(bands) |-> bands[i].gain_db]

AbsGains(bands) == [i \in 1..Len(bands) |-> Abs(bands[i].gain_db)]

Confidences(bands) == [i \in 1..Len(bands) |-> bands[i].confidence]

\* sum / len as f32: 0.0 / 0.0 is NaN
Mean(s) == IF Len(s) = 0 THEN NaN ELSE Fin(RoundDiv(SumSeq(s), Len(s)))

normalize_profile(profile) ==
    LET gains == Gains(profile.bands)
        mean  == Mean(gains)
    IN [i \in 1..Len(gains) |-> gains[i] - mean.v]

calculate_psychoacoustic_weights ==
    <<600, 700, 850, 950, 1100, 1300, 1350, 1250, 1000, 700>>

apply_psychoacoustic_weighting(bands) ==
    LET weights == calculate_psychoacoustic_weights
    IN [i \in 1..Len(bands) |->
          IF i <= Len(weights)
          THEN [bands[i] EXCEPT !.gain_db = Mul(@, weights[i])]
          ELSE bands[i]]

apply_confidence_weighting(bands) ==
    [i \in 1..Len(bands) |->
        [bands[i] EXCEPT !.gain_db = Mul(@, Sqrt(bands[i].confidence))]]

\* (0.7f32).powi(pass)
RECURSIVE PowI(_, _)
PowI(x, n) == IF n = 0 THEN Scale ELSE Mul(x, PowI(x, n - 1))

\* a faulty variant of SmoothPass: the first and the last band are smoothed
\* too, each standing in for its missing neighbour
SmoothPassWithEdges(bands, original, weight) ==
    [i \in 1..Len(bands) |->
        LET prev == original[Max(i - 1, 1)]
            curr == original[i]
            next == original[Min(i + 1, Len(bands))]
            smoothed == Mul(prev, 250) + Mul(curr, 500) + Mul(next, 250)
        IN [bands[i] EXCEPT !.gain_db =
               Mul(curr, Scale - weight) + Mul(smoothed, weight)]]

\* a faulty variant of SmoothPass: a pass reads the gains the pass before it
\* left, so the three passes compound
SmoothPassCompounding(bands, original, weight) ==
    [i \in 1..Len(bands) |->
        IF 1 < i /\ i < Len(bands)
        THEN LET prev == bands[i - 1].gain_db
                 curr == bands[i].gain_db
                 next == bands[i + 1].gain_db
                 smoothed == Mul(prev, 250) + Mul(curr, 500) + Mul(next, 250)
             IN [bands[i] EXCEPT !.gain_db =
                    Mul(curr, Scale - weight) + Mul(smoothed, weight)]
        ELSE bands[i]]

\* One pass of the loop of smooth_corrections: every interior band is
\* overwritten from the gains saved before the first pass.
SmoothPass(bands, original, weight) ==
    [i \in 1..Len(bands) |->
        IF 1 < i /\ i < Len(bands)
        THEN LET prev == original[i - 1]
                 curr == original[i]
                 next == original[i + 1]
                 smoothed == Mul(prev, 250) + Mul(curr, 500) + Mul(next, 250)
             IN [bands[i] EXCEPT !.gain_db =
                    Mul(curr, Scale - weight) + Mul(smoothed, weight)]
        ELSE bands[i]]

RECURSIVE SmoothFrom(_, _, _, _)
SmoothFrom(bands, original, factor, pass) ==
    IF pass = 3 THEN bands
    ELSE SmoothFrom(SmoothPass(bands, original, Mul(factor, PowI(700, pass))),
                    original, factor, pass + 1)

smooth_corrections(bands, factor) ==
    IF Len(bands) < 3 THEN bands
    ELSE SmoothFrom(bands, Gains(bands), factor, 0)

\* f32 Display of the limiting warning, as the values it is built from
LimitWarning(frequency, original, limited) ==
    [kind |-> "limited", frequency |-> frequency,
     from |-> original, to |-> limited]

SteepWarning(lo, hi, slope_per_octave) ==
    [kind |-> "steep", lo |-> lo, hi |-> hi, slope |-> slope_per_octave]

TotalWarning(total_correction) ==
    [kind |-> "total", total |-> total_correction]

\* a faulty variant of ScaleIntensity: the intensity is never applied
ScaleIntensitySkipped(bands, intensity) == bands

\* step 6 of match_profiles
ScaleIntensity(bands, intensity) ==
    [i \in 1..Len(bands) |-> [bands[i] EXCEPT !.gain_db = Mul(@, intensity)]]

\* step 7 of match_profiles: the clamped bands
LimitBands(bands, max_correction) ==
    [i \in 1..Len(bands) |->
        [bands[i] EXCEPT !.gain_db = Clamp(@, -max_correction, max_correction)]]

\* a faulty variant of LimitWarnings: the sign of the change is kept, so a
\* gain clamped upwards to -max_correction is never reported
RECURSIVE LimitWarningsSigned(_, _, _)
LimitWarningsSigned(bands, max_correction, i) ==
    IF i > Len(bands) THEN <<>>
    ELSE LET original == bands[i].gain_db
             limited  == Clamp(original, -max_correction, max_correction)
         IN (IF original - limited > 100
             THEN <<LimitWarning(bands[i].frequency, original, limited)>>
             ELSE <<>>)
            \o LimitWarningsSigned(bands, max_correction, i + 1)

\* step 7 of match_profiles: the warnings pushed, in band order
RECURSIVE LimitWarnings(_, _, _)
LimitWarnings(bands, max_correction, i) ==
    IF i > Len(bands) THEN <<>>
    ELSE LET original == bands[i].gain_db
             limited  == Clamp(original, -max_correction, max_correction)
         IN (IF Abs(original - limited) > 100
             THEN <<LimitWarning(bands[i].frequency, original, limited)>>
             ELSE <<>>)
            \o LimitWarnings(bands, max_correction, i + 1)

\* slope / freq_ratio.log2() of the adjacent bands i, i + 1
SlopePerOctave(bands, i) ==
    Div(Abs(bands[i + 1].gain_db - bands[i].gain_db),
        Log2Ratio(bands[i + 1].frequency, bands[i].frequency))

RECURSIVE SteepWarnings(_, _)
SteepWarnings(bands, i) ==
    IF i >= Len(bands) THEN <<>>
    ELSE (IF SlopePerOctave(bands, i) > 6000
          THEN <<SteepWarning(bands[i].frequency, bands[i + 1].frequency,
                              SlopePerOctave(bands, i))>>
          ELSE <<>>)
         \o SteepWarnings(bands, i + 1)

check_for_extreme_corrections(bands) ==
    LET total_correction == SumSeq(AbsGains(bands))
    IN SteepWarnings(bands, 1) \o
       (IF total_correction > 30000 THEN <<TotalWarning(total_correction)>>
                                    ELSE <<>>)

\* 1.0 - (1.0 - ref_dr / inp_dr).min(0.3), for ref_dr < inp_dr; with
\* inp_dr = 0 the ratio is -inf and the minimum is 0.3
PreservationFactor(ref_dr, inp_dr) ==
    IF inp_dr = 0 THEN Scale - 300
    ELSE Scale - Min(Scale - Div(ref_dr, inp_dr), 300)

preserve_dynamic_range(reference, input, bands) ==
    LET ref_dr == reference.dynamic_range
        inp_dr == input.dynamic_range
        scaled == IF ref_dr < inp_dr
                  THEN [i \in 1..Len(bands) |->
                          [bands[i] EXCEPT !.gain_db =
                              Mul(@, PreservationFactor(ref_dr, inp_dr))]]
                  ELSE bands
    IN [bands |-> scaled,
        overall_loudness |-> 0,
        dynamic_range |-> reference.dynamic_range,
        spectral_centroid |-> reference.spectral_centroid,
        spectral_rolloff |-> reference.spectral_rolloff]

\* the number of adjacent pairs the quality score penalises
RECURSIVE SteepPairs(_, _)
SteepPairs(bands, i) ==
    IF i >= Len(bands) THEN 0
    ELSE (IF Abs(bands[i + 1].gain_db - bands[i].gain_db) > 6000 THEN 1 ELSE 0)
         + SteepPairs(bands, i + 1)

\* f32::min ignores a NaN operand; NaN + x, NaN * x and NaN.clamp are NaN
calculate_match_quality(profile) ==
    LET avg_correction == Mean(AbsGains(profile.bands))
        penalty == IF IsNaN(avg_correction) THEN 400
                   ELSE Min(RoundDiv(avg_correction.v, 10), 400)
        score == Scale - penalty - 50 * SteepPairs(profile.bands, 1)
        avg_confidence == Mean(Confidences(profile.bands))
    IN IF IsNaN(avg_confidence) THEN NaN
       ELSE Fin(Clamp(Mul(score, 700 + Mul(300, avg_confidence.v)), 0, Scale))

\* a faulty variant of RawDiff: the input's normalized gain is not subtracted
RawDiffReferenceOnly(ref_norm, inp_norm) == ref_norm

\* raw_diff of a band pair
RawDiff(ref_norm, inp_norm) == ref_norm - inp_norm

\* a faulty variant of preserve_dynamic_range: the descriptors of the wrong profile
PreserveCopyingInput(reference, input, bands) ==
    LET kept == preserve_dynamic_range(reference, input, bands)
    IN [kept EXCEPT !.dynamic_range = input.dynamic_range,
                    !.spectral_centroid = input.spectral_centroid,
                    !.spectral_rolloff = input.spectral_rolloff]

\* step 9 of match_profiles, preserve_dynamics enabled
PreserveDynamics(reference, input, bands) ==
    preserve_dynamic_range(reference, input, bands)

\* steps 1 to 4 of match_profiles: the band corrections the smoothing step
\* receives
AttenuatedCorrections(reference, input, config) ==
    LET ref_normalized == normalize_profile(reference)
        inp_normalized == normalize_profile(input)
        \* zip stops at the shortest of the four iterators
        paired == Min(Len(reference.bands), Len(input.bands))
        raw == [i \in 1..paired |->
                  [frequency  |-> reference.bands[i].frequency,
                   gain_db    |-> RawDiff(ref_normalized[i], inp_normalized[i]),
                   bandwidth  |-> reference.bands[i].bandwidth,
                   confidence |-> RoundDiv(reference.bands[i].confidence
                                           + input.bands[i].confidence, 2)]]
        weighted == IF config.use_psychoacoustic
                    THEN apply_psychoacoustic_weighting(raw) ELSE raw
    IN apply_confidence_weighting(weighted)

\* step 5 of match_profiles
SmoothedCorrections(attenuated, config) ==
    IF config.smoothing_factor > 0
    THEN smooth_corrections(attenuated, config.smoothing_factor)
    ELSE attenuated

\* the values the local `corrections` of match_profiles holds after steps
\* 4, 5, 6 and 7
MatchSteps(reference, input, config) ==
    LET attenuated == AttenuatedCorrections(reference, input, config)
        smoothed == SmoothedCorrections(attenuated, config)
        scaled == ScaleIntensity(smoothed, config.intensity)
        limited == LimitBands(scaled, config.max_correction)
    IN [attenuated |-> attenuated, smoothed |-> smoothed,
        scaled |-> scaled, limited |-> limited]

\* match_profiles on `reference`, `input` and `config`: the MatchResult it
\* returns, with the values of MatchSteps it went through
MatchRun(reference, input, config) ==
    LET ref_normalized == normalize_profile(reference)
        inp_normalized == normalize_profile(input)
        steps == MatchSteps(reference, input, config)
        scaled == steps.scaled
        corrections == steps.limited
        warnings == LimitWarnings(scaled, config.max_correction, 1)
                    \o check_for_extreme_corrections(corrections)
        correction_profile ==
            IF config.preserve_dynamics
            THEN PreserveDynamics(reference, input, corrections)
            ELSE [bands |-> corrections,
                  overall_loudness |-> 0,
                  dynamic_range |-> reference.dynamic_range,
                  spectral_centroid |-> reference.spectral_centroid,
                  spectral_rolloff |-> reference.spectral_rolloff]
    IN [steps |-> steps,
        result |->
           [correction_profile |-> correction_profile,
            reference_normalized |-> ref_normalized,
            input_normalized |-> inp_normalized,
            quality_score |-> calculate_match_quality(correction_profile),
            warnings |-> warnings]]

match_profiles(reference, input, config) ==
    MatchRun(reference, input, config).result

(***************************************************************************)
(* The profiles and configurations the commands are called with.           *)
(***************************************************************************)
\* band i of a band list that starts at 250 Hz and rises by `octaves`
\* octaves per band (the default list of analyzer.rs rises by one)
LayoutFrequency(octaves, i) == 250 * Pow2(octaves * (i - 1))

OctaveSteps == {1, 2}

\* (gain_db, confidence) of a measured band
BandValues == {<<12000, 1000>>, <<-4000, 0>>}

\* (overall_loudness, dynamic_range, spectral_centroid, spectral_rolloff)
\* of the reference and of the input profile of one call
DescriptorPairs ==
    {<<(<<-14000, -10000, 1200, 8000>>), (<<-20000, -5000, 900, 4000>>)>>,
     <<(<<-9000, 8000, 2500, 12000>>), (<<-23000, 10000, 600, 3000>>)>>,
     <<(<<-14000, -10000, 1200, 8000>>), (<<-23000, 10000, 600, 3000>>)>>,
     <<(<<-23000, 10000, 600, 3000>>), (<<-9000, 8000, 2500, 12000>>)>>,
     <<(<<-9000, 8000, 2500, 12000>>), (<<-9000, 8000, 2500, 12000>>)>>}

MakeProfile(octaves, values, d) ==
    [bands |-> [i \in 1..Len(values) |->
                  [frequency  |-> LayoutFrequency(octaves, i),
                   gain_db    |-> values[i][1],
                   bandwidth  |-> RoundDiv(LayoutFrequency(octaves, i) * 23, 100),
                   confidence |-> values[i][2]]],
     overall_loudness  |-> d[1],
     dynamic_range     |-> d[2],
     spectral_centroid |-> d[3],
     spectral_rolloff  |-> d[4]]

BandLists == UNION {[1..n -> BandValues] : n \in 0..MaxBands}

MatchConfigs ==
    [intensity : {0, 1000}, max_correction : {3000, 12000},
     smoothing_factor : {0, 500},
     use_psychoacoustic : BOOLEAN, preserve_dynamics : BOOLEAN]

None == [none |-> TRUE]

(***************************************************************************)
(* The commands of main.rs.                                                *)
(***************************************************************************)
Init ==
    /\ pc = "idle"
    /\ args = None
    /\ ret = None
    /\ slots = <<>>
    /\ pending = {}
    /\ trace = None
    /\ eq = None

\* calculate_eq_match: always Ok(match_profiles(..))
calculate_eq_match(reference, input, config) ==
    /\ pc' = "matched"
    /\ args' = [reference |-> reference, input |-> input, config |-> config]
    /\ \E run \in {MatchRun(reference, input, config)} :
          /\ ret' = [ok |-> TRUE, value |-> run.result]
          /\ trace' = run.steps
    /\ UNCHANGED <<slots, pending, eq>>

CalculateEqMatch ==
    /\ pc = "idle"
    /\ \E octaves \in OctaveSteps :
          \E ref_values \in BandLists, inp_values \in BandLists,
             d \in DescriptorPairs, config \in MatchConfigs :
              calculate_eq_match(MakeProfile(octaves, ref_values, d[1]),
                                 MakeProfile(octaves, inp_values, d[2]),
                                 config)

\* the command's future resolves and its result goes back to the caller
Respond ==
    /\ pc \in {"matched", "extracted", "analyzed"}
    /\ pc' = "idle"
    /\ args' = None
    /\ ret' = None
    /\ trace' = None
    /\ UNCHANGED <<slots, pending, eq>>

NextMatch == CalculateEqMatch \/ Respond

SpecMatch == Init /\ [][NextMatch]_vars

(***************************************************************************)
(* profile.rs                                                              *)
(***************************************************************************)
\* 2.0f32.powf(1.0 / 6.0)
SixthOctave == 1122

\* the indices of the bins whose frequency lies in [lower, upper]
BinIndices(spectrum, lower, upper) ==
    {i \in 1..Len(spectrum.frequencies) :
        spectrum.frequencies[i] >= lower /\ spectrum.frequencies[i] <= upper}

RECURSIVE SumOver(_, _)
SumOver(f, S) ==
    IF S = {} THEN 0
    ELSE LET i == CHOOSE j \in S : TRUE IN f[i] + SumOver(f, S \ {i})

\* statrs: the sample standard deviation (N - 1 normaliser), NaN with
\* fewer than two entries
StdDev(f, S) ==
    IF Cardinality(S) < 2 THEN NaN
    ELSE LET mean == RoundDiv(SumOver(f, S), Cardinality(S))
             sq   == [i \in S |-> (f[i] - mean) * (f[i] - mean)]
             var4 == 4 * RoundDiv(SumOver(sq, S), Cardinality(S) - 1)
         IN Fin((SqrtFloor(var4, 0, 40000) + 1) \div 2)

\* the band returned when bin_indices is not empty
MeasuredBand(spectrum, center_freq, bin_indices) ==
    LET std_dev == StdDev(spectrum.magnitudes, bin_indices)
    IN [frequency |-> center_freq,
        gain_db |-> RoundDiv(SumOver(spectrum.magnitudes, bin_indices),
                             Cardinality(bin_indices)),
        bandwidth |-> RoundDiv(center_freq * 23, 100),
        confidence |->
           IF IsNaN(std_dev) THEN NaN
           ELSE Fin(Clamp(Div(Scale, Scale + RoundDiv(std_dev.v, 10)),
                          0, Scale))]

\* the bins of the 1/3-octave band around center_freq
BandBins(spectrum, center_freq) ==
    BinIndices(spectrum, RoundDiv(center_freq * Scale, SixthOctave),
               Mul(center_freq, SixthOctave))

\* a faulty variant of extract_band_info: a band without bins reads as 0 dB
ExtractBandInfoEmptyAsZero(spectrum, center_freq) ==
    IF BandBins(spectrum, center_freq) = {}
    THEN [frequency |-> center_freq, gain_db |-> 0,
          bandwidth |-> RoundDiv(center_freq * 23, 100), confidence |-> Fin(0)]
    ELSE MeasuredBand(spectrum, center_freq, BandBins(spectrum, center_freq))

extract_band_info(spectrum, center_freq) ==
    IF BandBins(spectrum, center_freq) = {}
    THEN [frequency |-> center_freq, gain_db |-> -80000,
          bandwidth |-> RoundDiv(center_freq * 23, 100), confidence |-> Fin(0)]
    ELSE MeasuredBand(spectrum, center_freq, BandBins(spectrum, center_freq))

\* sort_by(partial_cmp)
RECURSIVE Insert(_, _)
Insert(x, s) ==
    IF s = <<>> THEN <<x>>
    ELSE IF x <= Head(s) THEN <<x>> \o s
    ELSE <<Head(s)>> \o Insert(x, Tail(s))

RECURSIVE Sorted(_)
Sorted(s) == IF s = <<>> THEN <<>> ELSE Insert(Head(s), Sorted(Tail(s)))

\* indices are 0-based in the source
calculate_dynamic_range(magnitudes) ==
    LET sorted == Sorted(magnitudes)
        percentile_95 == sorted[(Len(sorted) * 95) \div 100 + 1]
        percentile_5  == sorted[(Len(sorted) * 5) \div 100 + 1]
    IN percentile_95 - percentile_5

\* The spectra extract_eq_profile is called with: 17 bins 25 Hz apart
\* (fft_size 32 at 800 Hz), flat, falling by 1.5 dB per bin, or silent.
SpectrumShapes == {"flat", "tilt", "silence"}

ShapeMagnitude(shape, i) ==
    CASE shape = "flat"    -> -20000
      [] shape = "tilt"    -> -10000 - 1500 * i
      [] shape = "silence" -> -200000

MakeSpectrum(shape) ==
    [frequencies |-> [i \in 1..17 |-> (i - 1) * 25],
     magnitudes  |-> [i \in 1..17 |-> ShapeMagnitude(shape, i - 1)],
     sample_rate |-> 800]

\* configured centre frequencies: 100 Hz holds one bin, 300 Hz three, and
\* 1000 Hz, above the last bin, none
CenterFrequencies == {100, 300, 1000}

FrequencyBandLists ==
    UNION {[1..n -> CenterFrequencies] : n \in 0..MaxBands}

\* extract_eq_profile hands the band list to rayon's par_iter
ExtractStart ==
    /\ pc = "idle"
    /\ \E shape \in SpectrumShapes, frequency_bands \in FrequencyBandLists :
          /\ args' = [spectrum |-> MakeSpectrum(shape),
                      config |-> [frequency_bands |-> frequency_bands]]
          /\ slots' = [i \in 1..Len(frequency_bands) |-> None]
          /\ pending' = 1..Len(frequency_bands)
    /\ pc' = "extracting"
    /\ UNCHANGED <<ret, trace, eq>>

\* one worker maps band i; the indexed collect writes its result to slot i
ExtractBand(i) ==
    /\ pc = "extracting"
    /\ i \in pending
    /\ slots' = [slots EXCEPT ![i] =
                    extract_band_info(args.spectrum, args.config.frequency_bands[i])]
    /\ pending' = pending \ {i}
    /\ UNCHANGED <<pc, args, ret, trace, eq>>

\* collect() returns once every band is mapped; the descriptors follow.
\* overall_loudness, spectral_centroid and spectral_rolloff are left out
\* of the record.
ExtractCollect ==
    /\ pc = "extracting"
    /\ pending = {}
    /\ ret' = [kind |-> "profile", bands |-> slots,
               dynamic_range |-> calculate_dynamic_range(args.spectrum.magnitudes)]
    /\ pc' = "extracted"
    /\ slots' = <<>>
    /\ UNCHANGED <<args, pending, trace, eq>>

(***************************************************************************)
(* analyzer.rs                                                             *)
(***************************************************************************)
\* usize arithmetic wraps modulo this; the model keeps usize 16 bits wide
UsizeModulus == 65536

\* cos and sin of num / den of a turn, for den in {1, 2, 4}
CosTurn(num, den) == <<1000, 0, -1000, 0>>[(((4 * num) \div den) % 4) + 1]

SinTurn(num, den) == <<0, 1000, 0, -1000>>[(((4 * num) \div den) % 4) + 1]

WindowTypes == {"Hann", "Hamming", "BlackmanHarris", "FlatTop"}

\* WindowType::generate: the coefficient of index i (from 0) of `size`
WindowCoefficient(window_type, i, size) ==
    CASE window_type = "Hann" ->
            Mul(500, Scale - CosTurn(i, size))
      [] window_type = "Hamming" ->
            540 - Mul(460, CosTurn(i, size))
      [] window_type = "BlackmanHarris" ->
            359 - Mul(488, CosTurn(i, size)) + Mul(141, CosTurn(2 * i, size))
                - Mul(12, CosTurn(3 * i, size))
      [] window_type = "FlatTop" ->
            216 - Mul(417, CosTurn(i, size)) + Mul(277, CosTurn(2 * i, size))
                - Mul(84, CosTurn(3 * i, size)) + Mul(7, CosTurn(4 * i, size))

generate(window_type, size) ==
    [i \in 1..size |-> WindowCoefficient(window_type, i - 1, size)]

\* (fft_size as f32 * (1.0 - overlap)) as usize: the cast truncates and
\* saturates at 0
HopSize(config) ==
    Max(0, (config.fft_size * (Scale - config.overlap)) \div Scale)

Panic(message) == [kind |-> "panic", message |-> message]

\* (samples.len() - fft_size) / hop_size + 1 in usize: a panic, or the count.
\* With overflow checks (debug builds) an overflow panics, without them
\* (release builds) it wraps; a division by zero panics in both.
NumWindows(len, config, overflow_checks) ==
    LET hop_size == HopSize(config)
        diff == (len - config.fft_size) % UsizeModulus
        sum == diff \div hop_size + 1
    IN IF len < config.fft_size /\ overflow_checks
       THEN Panic("attempt to subtract with overflow")
       ELSE IF hop_size = 0
       THEN Panic("attempt to divide by zero")
       ELSE IF sum >= UsizeModulus /\ overflow_checks
       THEN Panic("attempt to add with overflow")
       ELSE [kind |-> "count", n |-> sum % UsizeModulus]

\* the forward FFT of the windowed segment that starts at `start` (from 0):
\* the modulus of bin k, for fft_size in {1, 2, 4}
BinNorm(samples, window, start, k) ==
    LET size == Len(window)
        x  == [n \in 1..size |-> Mul(samples[start + n], window[n])]
        re == [n \in 1..size |-> Mul(x[n], CosTurn(k * (n - 1), size))]
        im == [n \in 1..size |-> -Mul(x[n], SinTurn(k * (n - 1), size))]
        sq == SumSeq(re) * SumSeq(re) + SumSeq(im) * SumSeq(im)
    IN (SqrtFloor(4 * sq, 0, 40000) + 1) \div 2

\* the loop over the windows: accumulated_spectrum after it
RECURSIVE Accumulate(_, _, _, _, _)
Accumulate(samples, window, hop_size, num_windows, window_idx) ==
    LET fft_size == Len(window)
        start == window_idx * hop_size
        end == Min(start + fft_size, Len(samples))
    IN IF window_idx >= num_windows \/ end - start < fft_size
       THEN [i \in 1..(fft_size \div 2 + 1) |-> 0]
       ELSE LET rest == Accumulate(samples, window, hop_size, num_windows,
                                   window_idx + 1)
            IN [i \in 1..(fft_size \div 2 + 1) |->
                   BinNorm(samples, window, start, i - 1) + rest[i]]

\* log2(x) for an integer x >= 1, in 1024ths: `bits` more binary digits of
\* the logarithm of m / 4096, m in [4096, 8192)
RECURSIVE Log2Fraction(_, _)
Log2Fraction(m, bits) ==
    IF bits = 0 THEN 0
    ELSE LET sq == (m * m) \div 4096
         IN IF sq >= 8192
            THEN Pow2(bits - 1) + Log2Fraction(sq \div 2, bits - 1)
            ELSE Log2Fraction(sq, bits - 1)

Log2Fixed(x) ==
    1024 * Log2Int(x) + Log2Fraction((x * 4096) \div Pow2(Log2Int(x)), 10)

\* 20.0 * (mag / num_windows + 1e-10).log10(): 0 / 0 is NaN, a mean below
\* half a thousandth is the floor of -200 dB
MagnitudeDb(mag, num_windows) ==
    IF num_windows = 0 THEN NaN
    ELSE LET avg_mag == RoundDiv(mag, num_windows)
         IN IF avg_mag = 0 THEN Fin(-200000)
            ELSE Fin(RoundDiv(6021 * (Log2Fixed(avg_mag) - Log2Fixed(Scale)),
                              1024))

analyze_spectrum(samples, sample_rate, config, overflow_checks) ==
    LET window == generate(config.window_type, config.fft_size)
        hop_size == HopSize(config)
        num_windows == NumWindows(Len(samples), config, overflow_checks)
        accumulated_spectrum ==
            Accumulate(samples, window, hop_size, num_windows.n, 0)
    IN IF num_windows.kind = "panic" THEN num_windows
       ELSE [kind |-> "spectrum",
             frequencies |-> [i \in 1..(config.fft_size \div 2 + 1) |->
                                RoundDiv((i - 1) * sample_rate, config.fft_size)],
             magnitudes |-> [i \in 1..(config.fft_size \div 2 + 1) |->
                                MagnitudeDb(accumulated_spectrum[i],
                                            num_windows.n)],
             sample_rate |-> sample_rate]

MaxSamples == 5

SampleValues == {-500, 1000}

SampleBuffers == UNION {[1..n -> SampleValues] : n \in 0..MaxSamples}

AnalysisConfigs ==
    [fft_size : {2, 4}, window_type : WindowTypes,
     overlap : {0, 500, 750, 900, 1000}]

\* analyze_spectrum, as load_reference_audio calls it at 48 kHz, in a build
\* with or without overflow checks
AnalyzeSpectrum ==
    /\ pc = "idle"
    /\ \E samples \in SampleBuffers, config \in AnalysisConfigs,
          overflow_checks \in BOOLEAN :
          /\ args' = [samples |-> samples, sample_rate |-> 48000,
                      config |-> config, overflow_checks |-> overflow_checks]
          /\ ret' = analyze_spectrum(samples, 48000, config, overflow_checks)
    /\ pc' = "analyzed"
    /\ UNCHANGED <<slots, pending, trace, eq>>

NextAnalysis ==
    \/ AnalyzeSpectrum
    \/ ExtractStart
    \/ \E i \in 1..MaxBands : ExtractBand(i)
    \/ ExtractCollect
    \/ Respond

SpecAnalysis == Init /\ [][NextAnalysis]_vars

(***************************************************************************)
(* dsp/filters.rs                                                          *)
(***************************************************************************)
\* biquad's Q_BUTTERWORTH_F32, 1 / sqrt(2)
Q_BUTTERWORTH_F32 == 707

\* x.sqrt() for x in [0, 16], to the nearest thousandth
SqrtWide(x) == LET twice == SqrtFloor(4 * x * Scale, 0, 8 * Scale)
               IN (twice + 1) \div 2

\* 10^(q / 4): the amplitude 10^(db_gain / 40) of a gain of q times 10 dB
RECURSIVE PowTenQuarters(_)
PowTenQuarters(q) ==
    IF q = 0 THEN Scale
    ELSE IF q > 0
    THEN Mul(SqrtWide(SqrtWide(10 * Scale)), PowTenQuarters(q - 1))
    ELSE Div(Scale, PowTenQuarters(-q))

\* Coefficients::from_params(Type::PeakingEQ(gain_db), sample_rate, frequency,
\* Q_BUTTERWORTH_F32): the normalized coefficients, or the error that
\* ParametricEQ::new unwraps.  frequency / sample_rate is a quarter turn or
\* a multiple of it, gain_db a multiple of 10 dB.
Coefficients(gain_db, sample_rate, frequency) ==
    IF 2 * frequency > sample_rate
    THEN Panic("called Result::unwrap() on an Err value: OutsideNyquist")
    ELSE LET a == PowTenQuarters(gain_db \div (10 * Scale))
             omega_s == SinTurn(frequency, sample_rate)
             omega_c == CosTurn(frequency, sample_rate)
             alpha == Div(omega_s, Mul(2 * Scale, Q_BUTTERWORTH_F32))
             b0 == Scale + Mul(alpha, a)
             b1 == Mul(-2 * Scale, omega_c)
             b2 == Scale - Mul(alpha, a)
             a0 == Scale + Div(alpha, a)
             a1 == Mul(-2 * Scale, omega_c)
             a2 == Scale - Div(alpha, a)
         IN [a1 |-> Div(a1, a0), a2 |-> Div(a2, a0),
             b0 |-> Div(b0, a0), b1 |-> Div(b1, a0), b2 |-> Div(b2, a0)]

\* DirectForm2Transposed::new(coeffs): the filter with an empty history
DirectForm2Transposed(coeffs) == [coeffs |-> coeffs, s1 |-> 0, s2 |-> 0]

\* ParametricEQ::new: one filter per band, in band-list order
ParametricEQ_new(sample_rate, bands) ==
    LET coeffs == [i \in 1..Len(bands) |->
                     Coefficients(bands[i].gain_db, sample_rate,
                                  bands[i].frequency)]
    IN IF \E i \in 1..Len(bands) : "kind" \in DOMAIN coeffs[i]
       THEN coeffs[CHOOSE i \in 1..Len(bands) :
                      /\ "kind" \in DOMAIN coeffs[i]
                      /\ \A j \in 1..(i - 1) : "kind" \notin DOMAIN coeffs[j]]
       ELSE [filters |-> [i \in 1..Len(bands) |->
                            DirectForm2Transposed(coeffs[i])]]

\* DirectForm2Transposed::run: the filter after the sample, and its output
run(filter, input) ==
    LET c == filter.coeffs
        out == filter.s1 + Mul(c.b0, input)
    IN [filter |-> [filter EXCEPT
                      !.s1 = filter.s2 + Mul(c.b1, input) - Mul(c.a1, out),
                      !.s2 = Mul(c.b2, input) - Mul(c.a2, out)],
        out |-> out]

\* the loop of process from filter i on: the filters after the sample, and
\* the output of the last of them
RECURSIVE RunFilters(_, _, _)
RunFilters(filters, i, output) ==
    IF i > Len(filters) THEN [filters |-> filters, output |-> output]
    ELSE LET r == run(filters[i], output)
         IN RunFilters([filters EXCEPT ![i] = r.filter], i + 1, r.out)

\* ParametricEQ::process: the instance after the sample, and the sample out
process(self, sample) ==
    LET r == RunFilters(self.filters, 1, sample)
    IN [self |-> [self EXCEPT !.filters = r.filters], output |-> r.output]

\* the loop of process_buffer from sample i on
RECURSIVE ProcessFrom(_, _, _)
ProcessFrom(self, buffer, i) ==
    IF i > Len(buffer) THEN [self |-> self, buffer |-> buffer]
    ELSE LET r == process(self, buffer[i])
         IN ProcessFrom(r.self, [buffer EXCEPT ![i] = r.output], i + 1)

\* a faulty variant of process_buffer: every call starts from filters with
\* an empty history
ProcessBufferFromSilence(self, buffer) ==
    ProcessFrom([self EXCEPT !.filters =
                    [i \in 1..Len(self.filters) |->
                        DirectForm2Transposed(self.filters[i].coeffs)]],
                buffer, 1)

\* ParametricEQ::process_buffer: the instance after the call, and the
\* buffer it rewrote in place
process_buffer(self, buffer) == ProcessFrom(self, buffer, 1)

apply_eq_preview(samples, sample_rate, bands) ==
    process_buffer(ParametricEQ_new(sample_rate, bands), samples).buffer

\* the longest sample stream an instance is fed, and the most filters it has
MaxStream == 4

MaxFilters == 2

SampleStreams == UNION {[1..n -> SampleValues] : n \in 0..MaxStream}

\* peaking bands a quarter of the 48 kHz sample rate up, cut or boosted by
\* 10 dB
EqGains == {-10000, 10000}

EqBandLists ==
    UNION {[1..n -> [frequency : {12000}, gain_db : EqGains,
                     bandwidth : {2760}, confidence : {Scale}]] :
             n \in 0..MaxFilters}

\* the samples of the stream the instance has taken so far
Consumed == Len(ret)

\* a caller builds an instance for a stream of samples
NewEq ==
    /\ pc = "idle"
    /\ \E bands \in EqBandLists, samples \in SampleStreams :
          /\ args' = [bands |-> bands, sample_rate |-> 48000,
                      samples |-> samples]
          /\ eq' = ParametricEQ_new(48000, bands)
    /\ pc' = "filtering"
    /\ ret' = <<>>
    /\ trace' = <<>>
    /\ UNCHANGED <<slots, pending>>

\* process on the next sample of the stream
Process ==
    /\ pc = "filtering"
    /\ Consumed < Len(args.samples)
    /\ \E r \in {process(eq, args.samples[Consumed + 1])} :
          /\ eq' = r.self
          /\ ret' = Append(ret, r.output)
    /\ trace' = Append(trace, [call |-> "process", len |-> 1])
    /\ UNCHANGED <<pc, args, slots, pending>>

\* process_buffer on the next n samples of the stream
ProcessBuffer(n) ==
    /\ pc = "filtering"
    /\ Consumed + n <= Len(args.samples)
    /\ \E r \in {process_buffer(eq, SubSeq(args.samples, Consumed + 1,
                                            Consumed + n))} :
          /\ eq' = r.self
          /\ ret' = ret \o r.buffer
    /\ trace' = Append(trace, [call |-> "process_buffer", len |-> n])
    /\ UNCHANGED <<pc, args, slots, pending>>

\* the stream is through and the instance is dropped
DropEq ==
    /\ pc = "filtering"
    /\ Consumed = Len(args.samples)
    /\ pc' = "idle"
    /\ args' = None
    /\ ret' = None
    /\ trace' = None
    /\ eq' = None
    /\ UNCHANGED <<slots, pending>>

NextFilter ==
    \/ NewEq
    \/ Process
    \/ \E n \in 1..MaxStream : ProcessBuffer(n)
    \/ DropEq

SpecFilter == Init /\ [][NextFilter]_vars

(***************************************************************************)
(* Properties of calculate_eq_match / match_profiles (SpecMatch).          *)
(***************************************************************************)
Matched == pc = "matched"

Corrections == ret.value.correction_profile.bands

AllGainsZero == \A i \in 1..Len(Corrections) : Corrections[i].gain_db = 0

\* C1: a call whose reference and input band counts differ fails; it never
\* returns a MatchResult built from the bands the two lists share.
C1_MismatchFails ==
    (Matched /\ Len(args.reference.bands) # Len(args.input.bands))
        => ~ret.ok

\* C3: every band of the returned correction profile has
\* |gain_db| <= max_correction, whatever options are enabled and whatever
\* the dynamic_range of the two profiles.
C3_GainWithinMaxCorrection ==
    Matched => \A i \in 1..Len(Corrections) :
                  Abs(Corrections[i].gain_db) <= args.config.max_correction

\* C4: the quality_score of every returned MatchResult is a number in [0, 1],
\* the empty band list included.
C4_QualityInUnitInterval ==
    Matched => /\ ~IsNaN(ret.value.quality_score)
               /\ ret.value.quality_score.v \in 0..Scale

\* C5: with intensity = 0 every band of the correction profile has gain_db 0
\* and no warning of any kind is emitted.
C5_ZeroIntensityIsNeutral ==
    (Matched /\ args.config.intensity = 0)
        => (AllGainsZero /\ ret.value.warnings = <<>>)

\* C5 witness: intensity 0 applied to bands whose raw difference is not 0,
\* with weighting, smoothing and dynamic-range scaling all active.
C5_Witness ==
    /\ Matched
    /\ args.config.intensity = 0
    /\ args.config.use_psychoacoustic
    /\ args.config.smoothing_factor > 0
    /\ args.config.preserve_dynamics
    /\ args.reference.dynamic_range < args.input.dynamic_range
    /\ Len(Corrections) = MaxBands
    /\ \A i \in 1..Len(Corrections) :
          /\ ret.value.reference_normalized[i] # ret.value.input_normalized[i]
          /\ Corrections[i].confidence > 0

\* mean(confidence) of the bands of a profile with at least one band
MeanConfidence(profile) == Mean(Confidences(profile.bands)).v

\* C6 as stated, for a profile with at least one band: matching it against
\* itself gives gain_db 0 in every band and a quality_score of about 1.0
\* (within 0.01), whatever the bands' confidence.
C6_SelfMatchScoresOne ==
    (Matched /\ args.reference = args.input /\ Len(args.reference.bands) > 0)
        => /\ AllGainsZero
           /\ ~IsNaN(ret.value.quality_score)
           /\ ret.value.quality_score.v >= Scale - 10

\* C6 amended: matching a profile against itself gives gain_db 0 in every
\* band; quality_score is 0.7 + 0.3 * mean(confidence) (1.0 only when every
\* band has confidence 1), and NaN when the profile has no band.
C6_SelfMatchScoresConfidence ==
    (Matched /\ args.reference = args.input)
        => /\ AllGainsZero
           /\ ret.value.quality_score =
                 IF Len(args.reference.bands) = 0 THEN NaN
                 ELSE Fin(700 + Mul(300, MeanConfidence(args.reference)))

\* C6 witness: a self-match of a full band list with unequal gains and
\* mixed confidence.
C6_Witness ==
    /\ Matched
    /\ args.reference = args.input
    /\ Len(args.reference.bands) = MaxBands
    /\ \E i, j \in 1..Len(args.reference.bands) :
          /\ args.reference.bands[i].gain_db # args.reference.bands[j].gain_db
          /\ args.reference.bands[i].confidence = 0
          /\ args.reference.bands[j].confidence = Scale

\* C7 as stated: the correction profile carries the reference's
\* overall_loudness, dynamic_range, spectral_centroid and spectral_rolloff.
C7_AllDescriptorsCopied ==
    Matched =>
        /\ ret.value.correction_profile.overall_loudness
              = args.reference.overall_loudness
        /\ ret.value.correction_profile.dynamic_range
              = args.reference.dynamic_range
        /\ ret.value.correction_profile.spectral_centroid
              = args.reference.spectral_centroid
        /\ ret.value.correction_profile.spectral_rolloff
              = args.reference.spectral_rolloff

\* C7 amended: dynamic_range, spectral_centroid and spectral_rolloff are the
\* reference's on both paths; overall_loudness is 0.0 on both paths.
C7_DescriptorsButLoudnessCopied ==
    Matched =>
        /\ ret.value.correction_profile.overall_loudness = 0
        /\ ret.value.correction_profile.dynamic_range
              = args.reference.dynamic_range
        /\ ret.value.correction_profile.spectral_centroid
              = args.reference.spectral_centroid
        /\ ret.value.correction_profile.spectral_rolloff
              = args.reference.spectral_rolloff

\* C7 witness: the preserve_dynamics path has scaled the bands, and the
\* input's descriptors all differ from the reference's.
C7_Witness ==
    /\ Matched
    /\ args.config.preserve_dynamics
    /\ args.reference.dynamic_range < args.input.dynamic_range
    /\ args.reference.overall_loudness # 0
    /\ args.reference.spectral_centroid # args.input.spectral_centroid
    /\ args.reference.spectral_rolloff # args.input.spectral_rolloff
    /\ \E i \in 1..Len(Corrections) : Corrections[i].gain_db # 0

\* the number of adjacent pairs whose slope per octave exceeds 6 dB
RECURSIVE SteepPairsPerOctave(_, _)
SteepPairsPerOctave(bands, i) ==
    IF i >= Len(bands) THEN 0
    ELSE (IF SlopePerOctave(bands, i) > 6000 THEN 1 ELSE 0)
         + SteepPairsPerOctave(bands, i + 1)

LimitingWarnings ==
    SelectSeq(ret.value.warnings, LAMBDA w : w.kind = "limited")

\* by how much clamping to [-max_correction, max_correction] changes a gain
ClampChange(gain_db) ==
    Abs(gain_db - Clamp(gain_db, -args.config.max_correction,
                        args.config.max_correction))

\* C11: the call returns a MatchResult whatever the number of warnings, and
\* its limiting warnings are, in band order, exactly the bands whose
\* intensity-scaled gain the clamp to [-max_correction, max_correction]
\* changed by more than 0.1 dB, each with the gain before and after; when
\* every scaled gain lies within +/-max_correction there is none.
C11_LimitWarningIffClamped ==
    Matched =>
        LET scaled == trace.scaled
            max_correction == args.config.max_correction
            limiting == LimitingWarnings
        IN /\ ret.ok
           /\ \A i \in 1..Len(scaled) :
                 (\E j \in 1..Len(limiting) :
                     /\ limiting[j].frequency = scaled[i].frequency
                     /\ limiting[j].from = scaled[i].gain_db
                     /\ limiting[j].to = Clamp(scaled[i].gain_db,
                                                -max_correction, max_correction))
                 <=> ClampChange(scaled[i].gain_db) > 100
           /\ \A j \in 1..Len(limiting) :
                 \E i \in 1..Len(scaled) :
                     limiting[j].frequency = scaled[i].frequency
           /\ \A j \in 1..Len(limiting) : \A k \in 1..Len(limiting) :
                 j < k => limiting[j].frequency < limiting[k].frequency
           /\ (\A i \in 1..Len(scaled) :
                  Abs(scaled[i].gain_db) <= max_correction)
              => limiting = <<>>

\* a call with a band limited downwards, a band limited upwards, and a band
\* the clamp changed by no more than 0.1 dB, warned about or not accordingly
C11_Witness ==
    /\ Matched
    /\ Len(LimitingWarnings) = 2
    /\ LimitingWarnings[1].from > LimitingWarnings[1].to
    /\ LimitingWarnings[2].from < LimitingWarnings[2].to
    /\ \E i \in 1..Len(Corrections) :
          ClampChange(trace.scaled[i].gain_db) \in 1..100

\* C12: with preserve_dynamics enabled and reference.dynamic_range below
\* input.dynamic_range the limited gains are scaled by a factor within
\* [0.7, 1]: no band's magnitude grows and none loses more than 30% (to the
\* rounding of one product); in every other case the returned gains are the
\* gains the limiting step produced.
C12_PreservationShrinksAtMost30Percent ==
    Matched =>
        LET limited == trace.limited
            ref_dr == args.reference.dynamic_range
            inp_dr == args.input.dynamic_range
        IN /\ Len(Corrections) = Len(limited)
           /\ IF args.config.preserve_dynamics /\ ref_dr < inp_dr
              THEN \A i \in 1..Len(limited) :
                     /\ Abs(Corrections[i].gain_db)
                           <= Abs(limited[i].gain_db)
                     /\ 2 * Scale * Abs(Corrections[i].gain_db)
                           >= 2 * 700 * Abs(limited[i].gain_db) - Scale
              ELSE Gains(Corrections) = Gains(limited)

\* the bands the smoothing step of the call received, and the bands it left
BeforeSmoothing == trace.attenuated

AfterSmoothing == trace.smoothed

\* C13: the smoothing step keeps the number of bands, every band's
\* frequency, bandwidth and confidence, and the gain_db of the first and
\* the last band; with fewer than 3 bands or smoothing_factor = 0 it
\* changes no band at all.
C13_SmoothingChangesInteriorGainsOnly ==
    Matched =>
        LET before == BeforeSmoothing
            after == AfterSmoothing
        IN /\ Len(after) = Len(before)
           /\ \A i \in 1..Len(before) :
                 /\ after[i].frequency = before[i].frequency
                 /\ after[i].bandwidth = before[i].bandwidth
                 /\ after[i].confidence = before[i].confidence
                 /\ (i = 1 \/ i = Len(before))
                       => after[i].gain_db = before[i].gain_db
           /\ (Len(before) < 3 \/ args.config.smoothing_factor = 0)
                 => after = before

\* a call whose smoothing step moved an interior gain between a first and a
\* last band of non-zero gain
C13_Witness ==
    /\ Matched
    /\ Len(BeforeSmoothing) >= 3
    /\ args.config.smoothing_factor > 0
    /\ BeforeSmoothing[1].gain_db # 0
    /\ BeforeSmoothing[Len(BeforeSmoothing)].gain_db # 0
    /\ \E i \in 2..(Len(BeforeSmoothing) - 1) :
          AfterSmoothing[i].gain_db # BeforeSmoothing[i].gain_db

\* orig[i] * (1 - w) + w * (0.25 * orig[i-1] + 0.5 * orig[i] + 0.25 * orig[i+1])
Blend(orig, i, w) ==
    Mul(orig[i], Scale - w)
    + Mul(Mul(orig[i - 1], 250) + Mul(orig[i], 500) + Mul(orig[i + 1], 250), w)

\* C14: after the three passes every interior band i holds the blend of the
\* pre-smoothing gains with weight w = smoothing_factor * 0.49, which is
\* what the last pass alone leaves: the passes of weight smoothing_factor
\* and smoothing_factor * 0.7 leave no trace.
C14_PassesDoNotCompound ==
    (Matched /\ args.config.smoothing_factor > 0 /\ Len(BeforeSmoothing) >= 3)
        => LET before == BeforeSmoothing
               after == AfterSmoothing
               orig == Gains(before)
               w == Mul(args.config.smoothing_factor, 490)
           IN /\ \A i \in 2..(Len(before) - 1) :
                    after[i].gain_db = Blend(orig, i, w)
              /\ after = SmoothFrom(before, orig,
                                    args.config.smoothing_factor, 2)

\* a call whose smoothing step left an interior gain that is neither the
\* gain it received nor the blend of the first pass or of the second
C14_Witness ==
    /\ Matched
    /\ args.config.smoothing_factor > 0
    /\ Len(BeforeSmoothing) >= 3
    /\ \E i \in 2..(Len(BeforeSmoothing) - 1) :
          LET orig == Gains(BeforeSmoothing)
              factor == args.config.smoothing_factor
          IN /\ AfterSmoothing[i].gain_db # orig[i]
             /\ AfterSmoothing[i].gain_db # Blend(orig, i, factor)
             /\ AfterSmoothing[i].gain_db # Blend(orig, i, Mul(factor, 700))

(***************************************************************************)
(* Properties of analyze_spectrum and extract_eq_profile (SpecAnalysis).   *)
(***************************************************************************)
\* C2: a sample buffer shorter than fft_size is detected and comes back as
\* an error or an empty result: no panic from the window-count arithmetic
\* and no spectrum of fft_size / 2 + 1 bins.
C2_ShortBufferIsDetected ==
    (pc = "analyzed" /\ Len(args.samples) < args.config.fft_size)
        => \/ ret.kind = "error"
           \/ (ret.kind = "spectrum" /\ ret.magnitudes = <<>>)

\* no bin of the spectrum lies within a sixth of an octave of center_freq
NoBinNear(spectrum, center_freq) ==
    \A j \in 1..Len(spectrum.frequencies) :
        \/ spectrum.frequencies[j] < RoundDiv(center_freq * Scale, SixthOctave)
        \/ spectrum.frequencies[j] > Mul(center_freq, SixthOctave)

\* C8: whatever the order in which the workers finish, the band mapped for
\* position i carries frequency_bands[i]; the profile returned has one band
\* per configured frequency, in the configured order, and a band with no
\* bin in its range is the sentinel of -80 dB with confidence 0.
C8_BandsFollowConfig ==
    /\ pc = "extracting" =>
          /\ Len(slots) = Len(args.config.frequency_bands)
          /\ \A i \in (1..Len(slots)) \ pending :
                slots[i].frequency = args.config.frequency_bands[i]
    /\ pc = "extracted" =>
          /\ Len(ret.bands) = Len(args.config.frequency_bands)
          /\ \A i \in 1..Len(ret.bands) :
                /\ ret.bands[i].frequency = args.config.frequency_bands[i]
                /\ NoBinNear(args.spectrum, args.config.frequency_bands[i])
                     => /\ ret.bands[i].gain_db = -80000
                        /\ ret.bands[i].confidence = Fin(0)

\* C8 witness: a full profile whose first band is the sentinel and whose
\* last band is measured, at different frequencies.
C8_Witness ==
    /\ pc = "extracted"
    /\ Len(ret.bands) = MaxBands
    /\ NoBinNear(args.spectrum, ret.bands[1].frequency)
    /\ ~NoBinNear(args.spectrum, ret.bands[MaxBands].frequency)
    /\ ret.bands[MaxBands].gain_db # -80000

\* C9: an invalid analysis configuration comes back as an error: a hop size
\* that truncates to 0 from analyze_spectrum, an empty frequency-band list
\* from extract_eq_profile.
C9_InvalidConfigIsError ==
    /\ (pc = "analyzed" /\ HopSize(args.config) = 0) => ret.kind = "error"
    /\ (pc = "extracted" /\ args.config.frequency_bands = <<>>)
          => ret.kind = "error"

(***************************************************************************)
(* Properties of ParametricEQ (SpecFilter).                                *)
(***************************************************************************)
\* the first sample through filters with an empty history: each filter in
\* band-list order multiplies it by its b0
RECURSIVE FirstOutput(_, _, _, _)
FirstOutput(bands, sample_rate, i, sample) ==
    IF i > Len(bands) THEN sample
    ELSE FirstOutput(bands, sample_rate, i + 1,
                     Mul(Coefficients(bands[i].gain_db, sample_rate,
                                      bands[i].frequency).b0, sample))

\* C15: however the calls on one instance cut the sample stream, into
\* process_buffer calls of any lengths and process calls, the samples that
\* have come out are the first samples of one process_buffer call over the
\* whole stream on a fresh instance of the same bands, and the first of
\* them went through the filters in band-list order.
C15_ChunkingLeavesOutputUnchanged ==
    pc = "filtering" =>
        /\ ret = SubSeq(apply_eq_preview(args.samples, args.sample_rate,
                                         args.bands), 1, Consumed)
        /\ Consumed >= 1
             => ret[1] = FirstOutput(args.bands, args.sample_rate, 1,
                                     args.samples[1])

\* a stream of four samples through two filters or more, cut into two
\* process_buffer calls of two samples, or fed by a process_buffer call
\* and process calls, with a filter history that is not empty at the end
C15_Witness ==
    /\ pc = "filtering"
    /\ Len(args.bands) >= 2
    /\ Len(args.samples) = 4
    /\ Consumed = 4
    /\ ret # args.samples
    /\ trace \in {<<[call |-> "process_buffer", len |-> 2],
                    [call |-> "process_buffer", len |-> 2]>>,
                  <<[call |-> "process_buffer", len |-> 2],
                    [call |-> "process", len |-> 1],
                    [call |-> "process", len |-> 1]>>}
    /\ \A i \in 1..Len(eq.filters) :
          eq.filters[i].s1 # 0 /\ eq.filters[i].s2 # 0

====
